---- MODULE Spec2Model ----
(***************************************************************************)
(* A model of the Galton board simulator of galton.py (class Galton).      *)
(*                                                                         *)
(* Positions are Fractions whose denominator divides 2.  They are kept     *)
(* here as the integer 2 * position ("half-bin units"): full bin n is the  *)
(* number 2n, the half-bin n + 1/2 is 2n + 1, and the two direction draws  *)
(* Fraction(-1, 2) and Fraction(1, 2) are -1 and 1.                        *)
(***************************************************************************)
EXTENDS Integers, Sequences, FiniteSets, TLC

VARIABLES bins, rows, random_bin, random_direction,
          pc, call, beads, start, done,
          origin, position, row, dirs, trace, heap, tally, returned, kept,
          bin_draws, dir_draws

vars == <<bins, rows, random_bin, random_direction, pc, call, beads, start,
          done, origin, position, row, dirs, trace, heap, tally, returned,
          kept, bin_draws, dir_draws>>

(* How often the current call has called the injected random_bin and       *)
(* random_direction so far.                                                *)
draws == <<bin_draws, dir_draws>>

(* The board: set by __init__ and never assigned again. *)
board == <<bins, rows, random_bin, random_direction>>

(* Bounds of the exploration. *)
MaxRowPairs == 2
MaxBins == 3
MaxBeads == 2

(* Python's None, and a value that is present. *)
None == <<>>
Some(v) == <<v>>

(* Full bin n as a position (half-bin units). *)
Bin(n) == 2 * n

(* The two values a direction draw can take: Fraction(-1,2), Fraction(1,2). *)
Directions == {-1, 1}

(* The injected random_direction strategies: the default fair choice, and  *)
(* the constant_direction doubles of the tests.                            *)
Strategies == {"random", "LEFT", "RIGHT"}

DirectionDraws(strategy) ==
    CASE strategy = "LEFT" -> {-1}
      [] strategy = "RIGHT" -> {1}
      [] OTHER -> Directions

(* The injected random_bin strategies: "any" hands back some int, in range *)
(* or not (the default randint(1, bins) is one of its behaviours); "one"   *)
(* is the tests' lambda bins: 1.                                           *)
BinStrategies == {"any", "one"}

BinDraws(strategy) ==
    IF strategy = "one" THEN {Bin(1)} ELSE { Bin(n) : n \in 0..(bins + 1) }

(* The start arguments tried: None, and every full-bin or half-bin value   *)
(* from 0 to bins + 1.                                                     *)
StartArguments == {None} \cup { Some(p) : p \in 0..Bin(bins + 1) }

(* is_valid with the left wall inside the board. *)
is_valid_left_closed(p) == 0 <= p /\ p < Bin(bins + 1)

(* Galton.is_valid: 0 < position < bins + 1. *)
is_valid(p) == 0 < p /\ p < Bin(bins + 1)

(* move_down without the bounce: the bead leaves the board. *)
move_down_no_bounce(p, d) == p + d

(* move_down that bounces back by half a bin only. *)
move_down_half_bounce(p, d) ==
    IF ~ (0 < p + d /\ p + d < 2 * bins + 2) THEN p ELSE p + d

(* Galton.move_down with the direction sample d it drew. *)
move_down(p, d) ==
    LET stepped == p + d
    IN  IF ~ is_valid(stepped) THEN stepped - d * 2 ELSE stepped

(* run_bead's loop, for _ in range(rows): position = move_down(position),  *)
(* as a function of the position before the i-th draw and of the draws:    *)
(* the positions from there on, row by row.                                *)
RECURSIVE walk(_, _, _)
walk(p, ds, i) ==
    IF i > Len(ds) THEN <<p>>
    ELSE <<p>> \o walk(move_down(p, ds[i]), ds, i + 1)

(* Whether that move_down took the reflection branch. *)
reflects(p, d) == ~ is_valid(p + d)

(* Bins counted from zero. *)
int_zero_based(p) == (p \div 2) - 1

(* int(position): truncation toward zero. *)
int(p) == IF p >= 0 THEN p \div 2 ELSE -((-p) \div 2)

(* run_bead's result for a bead that starts at p and draws ds. *)
End(p, ds) == LET w == walk(p, ds, 1) IN int(w[Len(w)])

(* Python truthiness of the start argument in "start or random_bin(bins)". *)
truthy(s) == s # None /\ s[1] # 0

(* A count that starts over at every hit. *)
count_reset(t, k) == (k :> 1) @@ t

(* Counter.update with one element. *)
count(t, k) ==
    IF k \in DOMAIN t THEN [t EXCEPT ![k] = @ + 1] ELSE t @@ (k :> 1)

(* sum(counter.values()) *)
RECURSIVE total(_)
total(t) ==
    IF DOMAIN t = {} THEN 0
    ELSE LET k == CHOOSE x \in DOMAIN t : TRUE
         IN  t[k] + total([x \in DOMAIN t \ {k} |-> t[x]])

EmptyTally == [k \in {} |-> 0]

(* The Counter objects that exist: heap maps a reference to the Counter it *)
(* names.                                                                  *)
NoObjects == [r \in {} |-> EmptyTally]

(* The Counter of the call before, used again. *)
FreshReused(refs) == IF refs = {} THEN 1 ELSE CHOOSE r \in refs : TRUE

(* A reference no live Counter has. *)
Fresh(refs) == CHOOSE r \in 1..(Cardinality(refs) + 1) : r \notin refs

(* The caller holds on to the tally of its latest simulate call that       *)
(* returned one (kept); Counters nobody refers to any more are dropped.    *)
Holds == IF call = "simulate" /\ pc = "returned" THEN returned[1] ELSE kept

Live(refs) == [r \in (DOMAIN heap) \cap refs |-> heap[r]]

(* Galton.__init__ : a board of row_pairs row pairs and bins bins. *)
Init ==
    /\ bins \in 1..MaxBins
    /\ \E row_pairs \in 1..MaxRowPairs : rows = row_pairs * 2
    /\ random_bin \in BinStrategies
    /\ random_direction \in Strategies
    /\ pc = "idle"
    /\ call = "none"
    /\ beads = 0
    /\ start = None
    /\ done = 0
    /\ origin = 0
    /\ position = 0
    /\ row = 0
    /\ dirs = <<>>
    /\ trace = <<>>
    /\ heap = NoObjects
    /\ tally = 0
    /\ returned = None
    /\ kept = 0
    /\ bin_draws = 0
    /\ dir_draws = 0

(* The caller makes its first call on a new board, or another call once   *)
(* the call before it has returned or raised.                              *)
Callable == pc = "idle"
CallableAgain == pc \in {"returned", "raised"}

(* The draws and positions of a bead are recorded, row by row, when the    *)
(* caller runs it directly with run_bead (history, not program state).     *)
Recorded == call = "run_bead"

(* A caller enters simulate(beads, start=s): Counter(...) starts empty and *)
(* pulls the first run_bead from the generator, if there is one.           *)
EnterSimulate(b, s) ==
    /\ call' = "simulate"
    /\ beads' = b
    /\ start' = s
    /\ done' = 0
    /\ kept' = Holds
    /\ tally' = Fresh(DOMAIN Live({kept'}))
    /\ heap' = Live({kept'}) @@ (tally' :> EmptyTally)
    /\ origin' = 0
    /\ position' = 0
    /\ row' = 0
    /\ dirs' = <<>>
    /\ trace' = <<>>
    /\ IF b = 0
         THEN pc' = "returned" /\ returned' = Some(tally')
         ELSE pc' = "resolve" /\ returned' = None
    /\ bin_draws' = 0
    /\ dir_draws' = 0
    /\ UNCHANGED board

(* A caller enters run_bead(s) directly. *)
EnterRunBead(s) ==
    /\ call' = "run_bead"
    /\ beads' = 1
    /\ start' = s
    /\ done' = 0
    /\ origin' = 0
    /\ position' = 0
    /\ row' = 0
    /\ dirs' = <<>>
    /\ trace' = <<>>
    /\ pc' = "resolve"
    /\ returned' = None
    /\ tally' = 0
    /\ kept' = Holds
    /\ heap' = Live({kept'})
    /\ bin_draws' = 0
    /\ dir_draws' = 0
    /\ UNCHANGED board

simulate(b, s) == Callable /\ EnterSimulate(b, s)
run_bead(s) == Callable /\ EnterRunBead(s)
simulate_again(b, s) == CallableAgain /\ EnterSimulate(b, s)
run_bead_again(s) == CallableAgain /\ EnterRunBead(s)

(* A run_bead that goes on from the bin the bead before it fell into. *)
ResolveStartCarried ==
    /\ pc = "resolve"
    /\ IF done > 0
         THEN position' = Bin(CHOOSE k \in DOMAIN heap[tally] : TRUE)
         ELSE IF truthy(start)
                THEN position' = start[1]
                ELSE \E drawn \in BinDraws(random_bin) : position' = drawn
    /\ origin' = position'
    /\ row' = 0
    /\ dirs' = <<>>
    /\ trace' = IF Recorded THEN <<position'>> ELSE <<>>
    /\ pc' = IF is_valid(position') THEN "rows" ELSE "raised"
    /\ bin_draws' = IF truthy(start) THEN bin_draws ELSE bin_draws + 1
    /\ UNCHANGED <<board, call, beads, start, done, heap, tally, returned,
                   kept, dir_draws>>

(* A run_bead that calls random_bin before it looks at start. *)
ResolveStartEager ==
    /\ pc = "resolve"
    /\ \E drawn \in BinDraws(random_bin) :
         position' = IF truthy(start) THEN start[1] ELSE drawn
    /\ origin' = position'
    /\ row' = 0
    /\ dirs' = <<>>
    /\ trace' = IF Recorded THEN <<position'>> ELSE <<>>
    /\ pc' = IF is_valid(position') THEN "rows" ELSE "raised"
    /\ bin_draws' = bin_draws + 1
    /\ UNCHANGED <<board, call, beads, start, done, heap, tally, returned,
                   kept, dir_draws>>

(* run_bead, lines 103-105: resolve the starting position and validate it. *)
ResolveStart ==
    /\ pc = "resolve"
    /\ IF truthy(start)
         THEN position' = start[1]
         ELSE \E drawn \in BinDraws(random_bin) : position' = drawn
    /\ origin' = position'
    /\ row' = 0
    /\ dirs' = <<>>
    /\ trace' = IF Recorded THEN <<position'>> ELSE <<>>
    /\ pc' = IF is_valid(position') THEN "rows" ELSE "raised"
    /\ bin_draws' = IF truthy(start) THEN bin_draws ELSE bin_draws + 1
    /\ UNCHANGED <<board, call, beads, start, done, heap, tally, returned,
                   kept, dir_draws>>

(* A move_down that draws a second direction when it bounces. *)
MoveDownRedraw ==
    /\ pc = "rows"
    /\ row < rows
    /\ \E d \in DirectionDraws(random_direction) :
         /\ position' = move_down(position, d)
         /\ dirs' = IF Recorded THEN Append(dirs, d) ELSE dirs
         /\ dir_draws' = dir_draws + (IF reflects(position, d) THEN 2 ELSE 1)
    /\ trace' = IF Recorded THEN Append(trace, position') ELSE trace
    /\ row' = row + 1
    /\ UNCHANGED <<board, pc, call, beads, start, done, origin, heap, tally,
                   returned, kept, bin_draws>>

(* run_bead, lines 106-107: one pass of the loop, one move_down. *)
MoveDown ==
    /\ pc = "rows"
    /\ row < rows
    /\ \E d \in DirectionDraws(random_direction) :
         /\ position' = move_down(position, d)
         /\ dirs' = IF Recorded THEN Append(dirs, d) ELSE dirs
    /\ trace' = IF Recorded THEN Append(trace, position') ELSE trace
    /\ row' = row + 1
    /\ dir_draws' = dir_draws + 1
    /\ UNCHANGED <<board, pc, call, beads, start, done, origin, heap, tally,
                   returned, kept, bin_draws>>

(* run_bead, line 108: return int(position), which ends the bead's frame   *)
(* (its locals are gone); in simulate the Counter counts the bin and       *)
(* either pulls the next bead or is returned.                              *)
Return ==
    /\ pc = "rows"
    /\ row = rows
    /\ done' = done + 1
    /\ origin' = 0
    /\ position' = 0
    /\ row' = 0
    /\ IF call = "simulate"
         THEN /\ heap' = [heap EXCEPT ![tally] = count(@, int(position))]
              /\ IF done' = beads
                   THEN pc' = "returned" /\ returned' = Some(tally)
                   ELSE pc' = "resolve" /\ returned' = None
         ELSE /\ heap' = heap
              /\ pc' = "returned"
              /\ returned' = Some(int(position))
    /\ UNCHANGED <<board, call, beads, start, dirs, trace, tally, kept,
                   draws>>

Next ==
    \/ \E b \in 0..MaxBeads, s \in StartArguments : simulate(b, s)
    \/ \E s \in StartArguments : run_bead(s)
    \/ ResolveStart
    \/ MoveDown
    \/ Return

(* One call on a new board. *)
Spec == Init /\ [][Next]_vars

(* Call after call on the same board. *)
NextCalls ==
    \/ Next
    \/ \E b \in 0..MaxBeads, s \in StartArguments : simulate_again(b, s)
    \/ \E s \in StartArguments : run_bead_again(s)

(* The boards on which call after call is followed: those of one row pair  *)
(* (what a tally holds from one call to the next does not depend on how    *)
(* many rows a bead passes).                                               *)
InitCalls == Init /\ rows = 2

SpecCalls == InitCalls /\ [][NextCalls]_vars

(***************************************************************************)
(* Vocabulary of the properties.                                           *)
(***************************************************************************)

Max(a, b) == IF a >= b THEN a ELSE b
Min(a, b) == IF a <= b THEN a ELSE b

row_pairs == rows \div 2

(* The open interval (0, bins + 1), written out. *)
OnBoard(p) == p > 0 /\ p < 2 * bins + 2

(* A bead is on the board: its start passed validation. *)
Running == pc = "rows"

(* A bead has passed every row and is about to return int(position). *)
AtEnd == pc = "rows" /\ row = rows

(* The current bead started on full bin s. *)
StartedAt(s) == origin = 2 * s

(* Every draw of the current bead was d: the direction strategy is the     *)
(* constant d, or the recorded draws are all d.                            *)
Drew(d) ==
    \/ d = -1 /\ random_direction = "LEFT"
    \/ d = 1 /\ random_direction = "RIGHT"
    \/ Recorded /\ \A i \in 1..Len(dirs) : dirs[i] = d

(* A recorded bead was reflected at a wall. *)
Reflected == Recorded /\ \E i \in 1..Len(dirs) : reflects(trace[i], dirs[i])

(* A simulate call has handed its tally back. *)
TallyReturned == call = "simulate" /\ pc = "returned"

ReturnedTally == heap[returned[1]]

(* The tally in which one bin holds all n beads (empty when n = 0). *)
AllIn(bin, n) == IF n = 0 THEN EmptyTally ELSE (bin :> n)

(* C1: all-left scenario.  With random_direction fixed to -1/2, a bead     *)
(* that starts in bin 1 is in bin 1 after each row pair, so with           *)
(* random_bin fixed to 1 and start unset simulate(beads) returns the tally *)
(* {1: beads} (row_pairs = 1, bins = 2 included); and a bead that starts   *)
(* on full bin s in [1, bins] and only draws -1/2 ends in bin              *)
(* max(1, s - row_pairs).                                                  *)
C1_AllLeft ==
    /\ (TallyReturned /\ random_direction = "LEFT" /\ random_bin = "one"
            /\ start = None)
          => ReturnedTally = AllIn(1, beads)
    /\ (Running /\ StartedAt(1) /\ Drew(-1) /\ row % 2 = 0)
          => position = Bin(1)
    /\ \A s \in 1..bins :
          (AtEnd /\ StartedAt(s) /\ Drew(-1))
             => int(position) = Max(1, s - row_pairs)
    /\ \A s \in 1..bins :
          (Recorded /\ pc = "returned" /\ trace[1] = Bin(s)
               /\ Drew(-1))
             => returned = Some(Max(1, s - row_pairs))

(* The test test_left_bin_left_direction, with as many beads as the bound  *)
(* allows: every bead was reflected at the left wall.                      *)
C1_Witness ==
    /\ TallyReturned /\ random_direction = "LEFT" /\ random_bin = "one"
    /\ start = None /\ rows = 2 /\ bins = 2 /\ beads = MaxBeads
    /\ ReturnedTally = (1 :> MaxBeads)

(* C2: all-right scenario.  With random_direction fixed to +1/2,           *)
(* row_pairs = 1, bins = 2, random_bin fixed to 1 and start unset,         *)
(* simulate(beads) returns the tally {2: beads}; and a bead that starts on *)
(* full bin s in [1, bins] and only draws +1/2 ends in bin                 *)
(* min(bins, s + row_pairs).                                               *)
C2_AllRight ==
    /\ (TallyReturned /\ random_direction = "RIGHT" /\ random_bin = "one"
            /\ start = None)
          => ReturnedTally = AllIn(Min(bins, 1 + row_pairs), beads)
    /\ (TallyReturned /\ random_direction = "RIGHT" /\ random_bin = "one"
            /\ start = None /\ rows = 2 /\ bins = 2)
          => ReturnedTally = AllIn(2, beads)
    /\ \A s \in 1..bins :
          (AtEnd /\ StartedAt(s) /\ Drew(1))
             => int(position) = Min(bins, s + row_pairs)
    /\ \A s \in 1..bins :
          (Recorded /\ pc = "returned" /\ trace[1] = Bin(s)
               /\ Drew(1))
             => returned = Some(Min(bins, s + row_pairs))

(* The test test_left_bin_right_direction on a board long enough for the   *)
(* bead to reach the right wall and be reflected there.                    *)
C2_Witness ==
    /\ TallyReturned /\ random_direction = "RIGHT" /\ random_bin = "one"
    /\ start = None /\ rows = 4 /\ bins = 2 /\ beads = MaxBeads
    /\ ReturnedTally = (2 :> MaxBeads)

(* C3: out-of-range start rejected.  run_bead(start=0) and                 *)
(* run_bead(start=bins+1) fail with the "out of range" error whatever      *)
(* random_bin returns: the bead never gets onto the board and no bin is    *)
(* returned.                                                               *)
C3_OutOfRangeStartRejected ==
    (call = "run_bead" /\ start \in {Some(Bin(0)), Some(Bin(bins + 1))})
       => (pc \in {"resolve", "raised"} /\ returned = None)

(* C4: boundary containment.  move_down takes every full-bin or half-bin   *)
(* position of (0, bins + 1) back into (0, bins + 1) for both direction    *)
(* draws, and every position a bead holds in any row, once its start       *)
(* passed validation, is in (0, bins + 1).                                 *)
C4_BoundaryContainment ==
    /\ \A p \in 1..(2 * bins + 1) : \A d \in Directions :
          OnBoard(move_down(p, d))
    /\ Running => /\ OnBoard(origin)
                  /\ OnBoard(position)
                  /\ \A i \in 1..Len(trace) : OnBoard(trace[i])

(* A bead that has been reflected at a wall, from a half-bin start. *)
C4_Witness ==
    /\ Running /\ row >= 1
    /\ origin % 2 = 1
    /\ Reflected

(* C5, as stated: every key of a tally that simulate returns is a bin of   *)
(* [1, bins], whatever starting position run_bead accepted, any given      *)
(* start that passes is_valid included.                                    *)
C5_KeysInRange_AnyAcceptedStart ==
    TallyReturned => \A k \in DOMAIN ReturnedTally : k \in 1..bins

(* Every bead of the current simulate call starts on a full bin: the start *)
(* argument, when it is used, is a whole number of bins (random_bin hands  *)
(* back ints).                                                             *)
WholeBinStarts == truthy(start) => start[1] % 2 = 0

(* C5, amended: when every bead's resolved starting position is an integer *)
(* that passes is_valid, every key of the tally (while it is built and     *)
(* when it is returned) is an integer bin index in [1, bins].              *)
C5_KeysInRange ==
    (call = "simulate" /\ WholeBinStarts)
       => /\ \A k \in DOMAIN heap[tally] : k \in 1..bins
          /\ pc = "returned" => \A k \in DOMAIN ReturnedTally : k \in 1..bins

(* A returned tally with both wall bins in it, from drawn starts. *)
C5_Witness ==
    /\ TallyReturned /\ start = None /\ bins >= 2
    /\ random_direction = "random"
    /\ DOMAIN ReturnedTally = {1, bins}

(* C6: tally conservation.  The counts of the tally sum to the number of   *)
(* beads run so far (one increment per run_bead), so to beads when         *)
(* simulate returns it; no key has a count of zero or less.                *)
C6_TallyConservation ==
    call = "simulate"
       => /\ total(heap[tally]) = done
          /\ \A k \in DOMAIN heap[tally] : heap[tally][k] >= 1
          /\ pc = "returned" => done = beads /\ total(ReturnedTally) = beads

(* A returned tally in which one bin was hit by every bead. *)
C6_Witness ==
    /\ TallyReturned /\ beads = MaxBeads /\ random_direction = "random"
    /\ \E k \in DOMAIN ReturnedTally : ReturnedTally[k] = MaxBeads

(* C7: an invalid resolved start aborts the run.  A bead whose resolved    *)
(* start is outside (0, bins + 1), given or drawn, never gets onto the     *)
(* board: run_bead raises before any direction is drawn, simulate returns  *)
(* no tally, and nothing more happens in that call (the next step, if      *)
(* any, is the entry of a new call, to which the caller brings no tally    *)
(* of the failed one).                                                     *)
C7_InvalidStartAborts ==
    /\ [](pc = "raised"
            => /\ ~ OnBoard(position)
               /\ dirs = <<>> /\ row = 0
               /\ returned = None
               /\ done < beads)
    /\ [](Running => OnBoard(origin))
    /\ [][(pc = "resolve" /\ ~ OnBoard(position')) => pc' = "raised"]_vars
    /\ [][pc = "raised"
            => /\ done' = 0 /\ origin' = 0 /\ row' = 0
               /\ pc' = "resolve" \/ (pc' = "returned" /\ beads' = 0)
               /\ kept' = kept]_vars

(* A simulate call that raised on its second bead: random_bin handed back  *)
(* an out-of-range value after one bead had been counted.                  *)
C7_Witness ==
    /\ pc = "raised" /\ call = "simulate" /\ start = None
    /\ done = 1 /\ beads = 2 /\ total(heap[tally]) = 1

(* C8: determinism.  The positions of a bead, row by row, and the bin it   *)
(* returns are the function walk of the resolved start and the direction   *)
(* draws, on the board's configuration and on nothing else (not on the     *)
(* beads run before, the tally or earlier calls); so with a fixed start    *)
(* and a fixed direction the repeated run_bead calls of one simulate all   *)
(* return the same bin.                                                    *)
C8_Determinism ==
    /\ (Running /\ Recorded)
          => /\ Len(dirs) = row
             /\ trace = walk(origin, dirs, 1)
             /\ position = trace[Len(trace)]
    /\ (Recorded /\ pc = "returned")
          => returned = Some(End(trace[1], dirs))
    /\ \A d \in Directions :
          (Running /\ DirectionDraws(random_direction) = {d})
             => position = walk(origin, [i \in 1..row |-> d], 1)[row + 1]
    /\ (call = "simulate" /\ random_direction \in {"LEFT", "RIGHT"}
            /\ (truthy(start) \/ random_bin = "one"))
          => Cardinality(DOMAIN heap[tally]) <= 1

(* The second bead of a call has run the same rows as the first and is     *)
(* about to return the bin the first one was counted in.                   *)
C8_Witness ==
    /\ AtEnd /\ call = "simulate" /\ done = 1 /\ truthy(start)
    /\ random_direction = "LEFT"
    /\ origin = Bin(1)
    /\ DOMAIN heap[tally] = {int(position)}

(* The mirror image of a position, and of a sequence of draws. *)
Mirror(p) == 2 * bins + 2 - p
Neg(ds) == [i \in 1..Len(ds) |-> - ds[i]]

(* How many of the 2^rows sequences of draws take a bead from full bin s   *)
(* to bin b.                                                               *)
Ends(s, b) ==
    Cardinality({ ds \in [1..rows -> Directions] : End(Bin(s), ds) = b })

Midpoint == (bins + 1) \div 2

(* C9: midpoint symmetry.  For odd bins and a start at the midpoint bin m, *)
(* negating every draw of a walk that ends in bin b gives a walk that ends *)
(* in bin bins + 1 - b, and for every k as many sequences of draws end in  *)
(* bin m - k as in bin m + k.                                              *)
C9_MidpointSymmetry ==
    (bins % 2 = 1 /\ Recorded /\ AtEnd /\ StartedAt(Midpoint))
       => /\ End(Bin(Midpoint), Neg(dirs)) = bins + 1 - int(position)
          /\ \A i \in 1..Len(trace) :
                walk(Bin(Midpoint), Neg(dirs), 1)[i] = Mirror(trace[i])
          /\ \A k \in 0..bins :
                Ends(Midpoint, Midpoint - k) = Ends(Midpoint, Midpoint + k)

(* A bead from the midpoint of a three-bin board that was reflected at the *)
(* left wall and ends off the midpoint.                                    *)
C9_Witness ==
    /\ AtEnd /\ bins = 3 /\ rows = 4 /\ StartedAt(2)
    /\ trace = <<4, 3, 2, 1, 2>>

(* C10: the terminal position is a whole bin.  From an integer starting    *)
(* bin, given or drawn, the position is a half-bin value after every odd   *)
(* number of rows and an integer in [1, bins] after every even number of   *)
(* rows; the position run_bead truncates is an integer already.            *)
C10_TerminalWholeBin ==
    (Running /\ origin % 2 = 0)
       => /\ IF row % 2 = 1
               THEN position % 2 = 1
               ELSE position % 2 = 0 /\ (position \div 2) \in 1..bins
          /\ \A i \in 1..Len(trace) :
                IF (i - 1) % 2 = 1
                  THEN trace[i] % 2 = 1
                  ELSE trace[i] % 2 = 0 /\ (trace[i] \div 2) \in 1..bins
          /\ AtEnd => 2 * int(position) = position

(* A bead from a drawn integer bin, reflected on the way, at the end. *)
C10_Witness ==
    /\ AtEnd /\ start = None /\ rows = 4
    /\ Reflected
    /\ \E i \in 1..Len(dirs) : ~ reflects(trace[i], dirs[i]) /\ i % 2 = 0

(* The start argument is given: neither None nor zero. *)
StartGiven == start # None /\ start[1] # 0

(* The current bead has its starting position and has not returned. *)
Resolved == pc \in {"rows", "raised"}

C12_OneDrawPerRow ==
    /\ [](call # "none" => dir_draws = done * rows + row)
    /\ [](TallyReturned => dir_draws = beads * rows)
    /\ []((Recorded /\ pc = "returned")
            => dir_draws = rows /\ Len(dirs) = rows)
    /\ [][(dir_draws' # dir_draws /\ dir_draws' # 0)
            => /\ dir_draws' = dir_draws + 1
               /\ row' = row + 1
               /\ \E d \in Directions : position' = move_down(position, d)]_vars
    /\ [][(pc = "rows" /\ pc' # "rows") => row = rows]_vars

(* The all-left test on the longer board: every bead was reflected once    *)
(* per row pair and the tally is back.                                     *)
C12_Witness ==
    /\ TallyReturned /\ beads = MaxBeads /\ rows = 4
    /\ random_direction = "LEFT" /\ random_bin = "one" /\ start = None
    /\ dir_draws = 4 * MaxBeads
    /\ ReturnedTally = (1 :> MaxBeads)

(* Where a row pair leaves a bead that enters it on full bin s and draws   *)
(* d1, then d2: one bin further when both draws go the same way and there  *)
(* is a bin there, else bin s.                                             *)
PairNet(s, d1, d2) ==
    IF d1 = d2 /\ (s + d1) \in 1..bins THEN s + d1 ELSE s

(* C13: row-pair net effect.  From every full bin s in [1, bins] two       *)
(* consecutive move_down steps leave the bead on a full bin of [1, bins]   *)
(* that is s - 1, s or s + 1; two steps the same way that would carry the  *)
(* bead to bin 0 or bin bins + 1 end the row pair at s.                    *)
C13_RowPairNetEffect ==
    /\ \A s \in 1..bins : \A d1 \in Directions : \A d2 \in Directions :
          LET q == move_down(move_down(Bin(s), d1), d2)
          IN  /\ q % 2 = 0
              /\ (q \div 2) \in 1..bins
              /\ (q \div 2) \in {s - 1, s, s + 1}
              /\ q = Bin(PairNet(s, d1, d2))
    /\ (Recorded /\ Running /\ origin % 2 = 0)
          => \A j \in 1..(Len(dirs) \div 2) :
                trace[2 * j + 1] =
                   Bin(PairNet(trace[2 * j - 1] \div 2,
                               dirs[2 * j - 1], dirs[2 * j]))

(* A bead that ran into the right wall in its first row pair and moved     *)
(* one bin to the left in its second.                                      *)
C13_Witness ==
    /\ Recorded /\ AtEnd /\ bins = 3 /\ rows = 4
    /\ dirs = <<1, 1, -1, -1>>
    /\ trace = <<6, 7, 6, 5, 4>>

(* C15: reflection.  A bead that starts on an integer bin of [1, bins] is  *)
(* never reflected on the first row of a row pair; on the second row it is *)
(* reflected exactly when it is at half-bin 1/2 and draws -1/2 or at       *)
(* half-bin bins + 1/2 and draws +1/2.  A reflected step lands on the      *)
(* board (no second reflection is needed), and a bead is reflected at most *)
(* row_pairs times in one run.                                             *)
C15_Reflection ==
    (Recorded /\ Running /\ origin % 2 = 0)
       => /\ \A i \in 1..Len(dirs) :
                /\ i % 2 = 1 => ~ reflects(trace[i], dirs[i])
                /\ i % 2 = 0
                     => (reflects(trace[i], dirs[i])
                           <=> \/ trace[i] = 1 /\ dirs[i] = -1
                               \/ trace[i] = 2 * bins + 1 /\ dirs[i] = 1)
                /\ reflects(trace[i], dirs[i])
                     => /\ trace[i + 1] = trace[i] - dirs[i]
                        /\ OnBoard(trace[i + 1])
          /\ Cardinality({ i \in 1..Len(dirs) : reflects(trace[i], dirs[i]) })
                <= row_pairs

(* A bead that was reflected in each of its row pairs, once at each wall   *)
(* of a one-bin board.                                                     *)
C15_Witness ==
    /\ Recorded /\ AtEnd /\ bins = 1 /\ rows = 4
    /\ dirs = <<-1, -1, 1, 1>>
    /\ trace = <<2, 1, 2, 3, 2>>

(* The bins run_bead can return from full bin s, over all 2^rows           *)
(* sequences of direction draws.                                           *)
TerminalBins(s) == { End(Bin(s), ds) : ds \in [1..rows -> Directions] }

(* C16: the terminal bins that run_bead can return from an integer start   *)
(* s in [1, bins] are exactly the integers of                              *)
(* [max(1, s - row_pairs), min(bins, s + row_pairs)].                      *)
C16_TerminalBins ==
    /\ \A s \in 1..bins :
          (Resolved /\ StartedAt(s))
             => TerminalBins(s)
                  = Max(1, s - row_pairs)..Min(bins, s + row_pairs)
    /\ \A s \in 1..bins :
          (AtEnd /\ StartedAt(s))
             => int(position)
                  \in Max(1, s - row_pairs)..Min(bins, s + row_pairs)

(* A bead at the far end of its interval, which neither wall cut short:    *)
(* from bin 1 of three up to bin 3 in two row pairs.                       *)
C16_Witness ==
    /\ AtEnd /\ bins = 3 /\ rows = 4
    /\ StartedAt(1) /\ position = Bin(3)

(* C14: fresh tally per run.  Every simulate call starts a new, empty      *)
(* Counter that is not the one the caller holds from an earlier call; it   *)
(* counts the beads of its own call only, so each returned tally sums to   *)
(* its own call's beads; and no step of a later simulate or run_bead call  *)
(* changes the tally the caller holds.                                     *)
C14_FreshTally ==
    /\ [](call = "simulate"
            => /\ tally \in DOMAIN heap
               /\ tally # kept
               /\ total(heap[tally]) = done)
    /\ [](TallyReturned
            => /\ total(ReturnedTally) = beads
               /\ returned[1] # kept)
    /\ [][(pc \in {"idle", "returned", "raised"} /\ call' = "simulate")
            => /\ heap'[tally'] = EmptyTally
               /\ tally' # Holds]_vars
    /\ [][Holds # 0
            => /\ Holds \in DOMAIN heap'
               /\ heap'[Holds] = heap[Holds]]_vars

(* A second simulate call has returned its own full tally while the caller *)
(* still holds the different, full tally of the call before.               *)
C14_Witness ==
    /\ TallyReturned /\ beads = MaxBeads
    /\ kept # 0 /\ kept \in DOMAIN heap
    /\ total(heap[kept]) = MaxBeads
    /\ heap[kept] # ReturnedTally

====
